---- MODULE Spec2Model ----
(***************************************************************************)
(* ATLDLevelStreamingManager (src/TLDLevelStreamingManager.cpp): the chunk *)
(* records the manager keeps, the requests it sends to the engine's        *)
(* ULevelStreaming objects, and the engine completing those requests.      *)
(* Time is counted in whole units: WarmUpSeconds and DeltaTime are         *)
(* integers.                                                               *)
(***************************************************************************)
EXTENDS Integers, Sequences, FiniteSets, TLC

\* ---------------------------------------------------------------- bounds
MaxWarm == 2
MaxDelta == 2
MaxCineDelay == 1
MaxRequests == 2
MaxWidgets == 3

\* ----------------------------------------------------------------- names
None == "None"
NoStreaming == "nullptr"
Sublevels == {"Forest_Combat"}
NotSublevels == {"Missing"}
Names == {None} \cup Sublevels \cup NotSublevels

WarmUpInputs == (0 - 1)..MaxWarm
DeltaTimes == 1..MaxDelta

ETLDChunkState == {"Unloaded", "Loading", "LoadedHidden", "Visible"}

VARIABLES
    ChunkRecords,  \* TMap<FName, FTLDChunkRecord>
    engine,        \* per sublevel: the ULevelStreaming object of the world
    lastCall,      \* the call that produced this state
    reqLog,        \* the engine requests that call issued, in order
    lastReq,       \* per sublevel: the latest LoadChunkAsync/UnloadChunkAsync/SetChunkVisible
    reqBit,        \* per sublevel: flips at every such request
    trail,         \* per name: how far along the lifecycle since last Unloaded
    hiddenAcc,     \* per sublevel: DeltaTime of Ticks called while LoadedHidden
    loadedAcc,     \* per sublevel: DeltaTime of Ticks that found the level loaded
    mgr,           \* UTLDCinematicManager: its fields and its two timer handles
    cworld,        \* the world the cinematic manager acts on: pause flag, sequence player
    cineCall,      \* the cinematic manager call that produced this state
    ctrig,         \* ATLDCinematicTrigger: its properties and bHasFired
    strig,         \* ATLDStreamingTrigger: its properties, bHasFired, LoadedByThisTrigger
    strigCall,     \* the streaming trigger handler that produced this state
    inside,        \* the actors overlapping the streaming trigger's box
    ui,            \* UTLDUIManager: CurrentConfig, LiveWidgets, Pooled, HUDRoot
    widgets,       \* the UUserWidget objects of the world, by identity
    uiworld,       \* the player controller's input mode and the game's pause flag
    uiCall         \* the UI manager call that produced this state

streamVars ==
    <<ChunkRecords, engine, lastCall, reqLog, lastReq, reqBit, trail, hiddenAcc, loadedAcc>>
cineVars == <<mgr, cworld, cineCall>>
ctrigVars == <<ctrig>>
strigVars == <<strig, strigCall, inside>>
uiVars == <<ui, widgets, uiworld, uiCall>>

vars == <<ChunkRecords, engine, lastCall, reqLog, lastReq, reqBit, trail, hiddenAcc, loadedAcc,
          mgr, cworld, cineCall, ctrig, strig, strigCall, inside,
          ui, widgets, uiworld, uiCall>>

Min(a, b) == IF a < b THEN a ELSE b
Max(a, b) == IF a > b THEN a ELSE b

\* ------------------------------------------------------ engine interface
ULevelStreaming ==
    [bShouldBeLoaded : BOOLEAN, bShouldBeVisible : BOOLEAN,
     bLoaded : BOOLEAN, bVisible : BOOLEAN]

SetShouldBeLoaded(eng, sl, b) == [eng EXCEPT ![sl].bShouldBeLoaded = b]
SetShouldBeVisible(eng, sl, b) == [eng EXCEPT ![sl].bShouldBeVisible = b]
IsLevelLoaded(eng, sl) == eng[sl].bLoaded
IsLevelVisible(eng, sl) == eng[sl].bVisible

Req(fn, sl, b) == [fn |-> fn, level |-> sl, value |-> b]

\* FindStreamingLevelByName: the world's streaming level of that name, or null
FindStreamingLevelByName(LevelName) ==
    IF LevelName \in Sublevels THEN LevelName ELSE NoStreaming

\* the record GetOrAddRecord creates
NewRecord(LevelName) ==
    [LevelName |-> LevelName, State |-> "Unloaded",
     Streaming |-> FindStreamingLevelByName(LevelName), WarmUpSeconds |-> 0]

\* GetOrAddRecord: the map after the call (the record is ChunkRecords[LevelName])
GetOrAddRecord(recs, LevelName) ==
    IF LevelName \in DOMAIN recs THEN recs
    ELSE [n \in DOMAIN recs \cup {LevelName} |->
            IF n = LevelName THEN NewRecord(LevelName) ELSE recs[n]]

\* Result of an internal helper: the record, the engine, the requests issued
\* and the values assigned to Rec.State, in order.
Result(Rec, eng, log, path) == [Rec |-> Rec, eng |-> eng, log |-> log, path |-> path]

\* if (!Rec.Streaming) Rec.Streaming = FindStreamingLevelByName(Rec.LevelName);
CacheStreaming(Rec) ==
    IF Rec.Streaming = NoStreaming
    THEN [Rec EXCEPT !.Streaming = FindStreamingLevelByName(Rec.LevelName)]
    ELSE Rec

\* ApplyLoad written with the warm-up stored whatever bMakeVisibleAfterLoad is
ApplyLoad_WarmUpRegardless(Rec, eng, bMakeVisibleAfterLoad, WarmUpSeconds) ==
    LET R == CacheStreaming(Rec)
        sl == R.Streaming
    IN  IF sl = NoStreaming THEN Result(R, eng, <<>>, <<>>)
        ELSE IF IsLevelLoaded(eng, sl) THEN
            LET bShowNow == bMakeVisibleAfterLoad /\ WarmUpSeconds <= 0
                st == IF bShowNow THEN "Visible" ELSE "LoadedHidden"
            IN  Result([R EXCEPT !.State = st,
                               !.WarmUpSeconds = Max(0, WarmUpSeconds)],
                       SetShouldBeVisible(eng, sl, bShowNow),
                       <<Req("SetShouldBeVisible", sl, bShowNow)>>,
                       <<st>>)
        ELSE
            LET bRequestVisibleNow == bMakeVisibleAfterLoad /\ WarmUpSeconds <= 0
                st == IF bRequestVisibleNow THEN "Visible" ELSE "Loading"
            IN  Result([R EXCEPT !.State = st,
                               !.WarmUpSeconds = Max(0, WarmUpSeconds)],
                       SetShouldBeVisible(SetShouldBeLoaded(eng, sl, TRUE),
                                          sl, bRequestVisibleNow),
                       <<Req("SetShouldBeLoaded", sl, TRUE),
                         Req("SetShouldBeVisible", sl, bRequestVisibleNow)>>,
                       <<st>>)

\* ApplyLoad written with the state set before the sublevel is validated
ApplyLoad_TracksBeforeValidation(Rec, eng, bMakeVisibleAfterLoad, WarmUpSeconds) ==
    LET R == CacheStreaming(Rec)
        sl == R.Streaming
        bShow == bMakeVisibleAfterLoad /\ WarmUpSeconds <= 0
        warm == IF bMakeVisibleAfterLoad THEN Max(0, WarmUpSeconds) ELSE 0
    IN  IF sl = NoStreaming
        THEN Result([R EXCEPT !.State = "Loading"], eng, <<>>, <<"Loading">>)
        ELSE IF IsLevelLoaded(eng, sl) THEN
            LET st == IF bShow THEN "Visible" ELSE "LoadedHidden"
            IN  Result([R EXCEPT !.State = st, !.WarmUpSeconds = warm],
                       SetShouldBeVisible(eng, sl, bShow),
                       <<Req("SetShouldBeVisible", sl, bShow)>>, <<st>>)
        ELSE
            LET st == IF bShow THEN "Visible" ELSE "Loading"
            IN  Result([R EXCEPT !.State = st, !.WarmUpSeconds = warm],
                       SetShouldBeVisible(SetShouldBeLoaded(eng, sl, TRUE), sl, bShow),
                       <<Req("SetShouldBeLoaded", sl, TRUE),
                         Req("SetShouldBeVisible", sl, bShow)>>, <<st>>)

ApplyLoad(Rec, eng, bMakeVisibleAfterLoad, WarmUpSeconds) ==
    LET R == CacheStreaming(Rec)
        sl == R.Streaming
    IN  IF sl = NoStreaming THEN Result(R, eng, <<>>, <<>>)
        ELSE IF IsLevelLoaded(eng, sl) THEN
            LET bShowNow == bMakeVisibleAfterLoad /\ WarmUpSeconds <= 0
                st == IF bShowNow THEN "Visible" ELSE "LoadedHidden"
            IN  Result([R EXCEPT !.State = st,
                               !.WarmUpSeconds =
                                   IF bMakeVisibleAfterLoad /\ WarmUpSeconds > 0
                                   THEN WarmUpSeconds ELSE 0],
                       SetShouldBeVisible(eng, sl, bShowNow),
                       <<Req("SetShouldBeVisible", sl, bShowNow)>>,
                       <<st>>)
        ELSE
            LET bRequestVisibleNow == bMakeVisibleAfterLoad /\ WarmUpSeconds <= 0
                st == IF bRequestVisibleNow THEN "Visible" ELSE "Loading"
            IN  Result([R EXCEPT !.State = st,
                               !.WarmUpSeconds =
                                   IF bMakeVisibleAfterLoad
                                   THEN Max(0, WarmUpSeconds) ELSE 0],
                       SetShouldBeVisible(SetShouldBeLoaded(eng, sl, TRUE),
                                          sl, bRequestVisibleNow),
                       <<Req("SetShouldBeLoaded", sl, TRUE),
                         Req("SetShouldBeVisible", sl, bRequestVisibleNow)>>,
                       <<st>>)

\* ApplyUnload written with the two engine requests in the other order
ApplyUnload_UnloadFirst(Rec, eng) ==
    LET R == CacheStreaming(Rec)
        sl == R.Streaming
    IN  IF sl = NoStreaming
        THEN Result([R EXCEPT !.State = "Unloaded"], eng, <<>>, <<"Unloaded">>)
        ELSE Result([R EXCEPT !.State = "Unloaded", !.WarmUpSeconds = 0],
                    SetShouldBeVisible(SetShouldBeLoaded(eng, sl, FALSE), sl, FALSE),
                    <<Req("SetShouldBeLoaded", sl, FALSE),
                      Req("SetShouldBeVisible", sl, FALSE)>>,
                    <<"Unloaded">>)

ApplyUnload(Rec, eng) ==
    LET R == CacheStreaming(Rec)
        sl == R.Streaming
    IN  IF sl = NoStreaming
        THEN Result([R EXCEPT !.State = "Unloaded"], eng, <<>>, <<"Unloaded">>)
        ELSE Result([R EXCEPT !.State = "Unloaded", !.WarmUpSeconds = 0],
                    SetShouldBeLoaded(SetShouldBeVisible(eng, sl, FALSE), sl, FALSE),
                    <<Req("SetShouldBeVisible", sl, FALSE),
                      Req("SetShouldBeLoaded", sl, FALSE)>>,
                    <<"Unloaded">>)

ApplyVisibility(Rec, eng, bVisible) ==
    LET R == CacheStreaming(Rec)
        sl == R.Streaming
    IN  IF sl = NoStreaming THEN Result(R, eng, <<>>, <<>>)
        ELSE IF ~IsLevelLoaded(eng, sl) THEN
            Result([R EXCEPT !.State = "Loading"],
                   SetShouldBeVisible(SetShouldBeLoaded(eng, sl, TRUE), sl, FALSE),
                   <<Req("SetShouldBeLoaded", sl, TRUE),
                     Req("SetShouldBeVisible", sl, FALSE)>>,
                   <<"Loading">>)
        ELSE
            LET st == IF bVisible THEN "Visible" ELSE "LoadedHidden"
            IN  Result([R EXCEPT !.State = st, !.WarmUpSeconds = 0],
                       SetShouldBeVisible(eng, sl, bVisible),
                       <<Req("SetShouldBeVisible", sl, bVisible)>>,
                       <<st>>)

\* the loop body written without the IsLevelLoaded() poll
TickRecord_NoLoadedCheck(Rec, eng, DeltaTime) ==
    LET bDone == Rec.State = "Loading" /\ Rec.Streaming # NoStreaming
        R1 == IF bDone THEN [Rec EXCEPT !.State = "LoadedHidden"] ELSE Rec
        p1 == IF bDone THEN <<"LoadedHidden">> ELSE <<>>
    IN  IF R1.State = "LoadedHidden" /\ R1.WarmUpSeconds > 0 THEN
            LET R2 == [R1 EXCEPT !.WarmUpSeconds = R1.WarmUpSeconds - DeltaTime]
            IN  IF R2.WarmUpSeconds <= 0
                THEN LET v == ApplyVisibility(R2, eng, TRUE)
                     IN  Result(v.Rec, v.eng, v.log, p1 \o v.path)
                ELSE Result(R2, eng, <<>>, p1)
        ELSE Result(R1, eng, <<>>, p1)

\* the loop body written with the warm-up counting down while still Loading
TickRecord_CountsWhileLoading(Rec, eng, DeltaTime) ==
    LET bDone == Rec.State = "Loading" /\ Rec.Streaming # NoStreaming
                 /\ IsLevelLoaded(eng, Rec.Streaming)
        R1 == IF bDone THEN [Rec EXCEPT !.State = "LoadedHidden"] ELSE Rec
        p1 == IF bDone THEN <<"LoadedHidden">> ELSE <<>>
    IN  IF R1.State \in {"Loading", "LoadedHidden"} /\ R1.WarmUpSeconds > 0 THEN
            LET R2 == [R1 EXCEPT !.WarmUpSeconds = R1.WarmUpSeconds - DeltaTime]
            IN  IF R2.WarmUpSeconds <= 0 /\ R2.State = "LoadedHidden"
                THEN LET v == ApplyVisibility(R2, eng, TRUE)
                     IN  Result(v.Rec, v.eng, v.log, p1 \o v.path)
                ELSE Result(R2, eng, <<>>, p1)
        ELSE Result(R1, eng, <<>>, p1)

\* the body of Tick's loop for one record
TickRecord(Rec, eng, DeltaTime) ==
    LET bDone == Rec.State = "Loading" /\ Rec.Streaming # NoStreaming
                 /\ IsLevelLoaded(eng, Rec.Streaming)
        R1 == IF bDone THEN [Rec EXCEPT !.State = "LoadedHidden"] ELSE Rec
        p1 == IF bDone THEN <<"LoadedHidden">> ELSE <<>>
    IN  IF R1.State = "LoadedHidden" /\ R1.WarmUpSeconds > 0 THEN
            LET R2 == [R1 EXCEPT !.WarmUpSeconds = R1.WarmUpSeconds - DeltaTime]
            IN  IF R2.WarmUpSeconds <= 0
                THEN LET v == ApplyVisibility(R2, eng, TRUE)
                     IN  Result(v.Rec, v.eng, v.log, p1 \o v.path)
                ELSE Result(R2, eng, <<>>, p1)
        ELSE Result(R1, eng, <<>>, p1)

\* Tick's loop over ChunkRecords: todo is the set of keys not yet visited
RECURSIVE TickLoop(_, _, _, _, _, _)
TickLoop(todo, recs, eng, log, paths, DeltaTime) ==
    IF todo = {} THEN [recs |-> recs, eng |-> eng, log |-> log, paths |-> paths]
    ELSE LET n == CHOOSE x \in todo : TRUE
             r == TickRecord(recs[n], eng, DeltaTime)
         IN  TickLoop(todo \ {n}, [recs EXCEPT ![n] = r.Rec], r.eng,
                      log \o r.log, [paths EXCEPT ![n] = r.path], DeltaTime)

\* ---------------------------------------------------------------- queries
IsChunkLoaded(LevelName) ==
    IF LevelName \in DOMAIN ChunkRecords
    THEN ChunkRecords[LevelName].State \in {"LoadedHidden", "Visible"}
    ELSE IF FindStreamingLevelByName(LevelName) # NoStreaming
         THEN IsLevelLoaded(engine, FindStreamingLevelByName(LevelName))
         ELSE FALSE

IsChunkVisible(LevelName) ==
    IF LevelName \in DOMAIN ChunkRecords
    THEN ChunkRecords[LevelName].State = "Visible"
    ELSE IF FindStreamingLevelByName(LevelName) # NoStreaming
         THEN IsLevelVisible(engine, FindStreamingLevelByName(LevelName))
         ELSE FALSE

\* the tracked state of a name (a name without a record has not been loaded)
StateOf(recs, n) == IF n \in DOMAIN recs THEN recs[n].State ELSE "Unloaded"

\* ------------------------------------------------------- history variables
NoReq == [kind |-> "none", W |-> 0]

\* lifecycle progress since the chunk was last Unloaded, after it takes state st
Step1(t, st) ==
    CASE st = "Unloaded" -> "none"
      [] st = "Loading" -> IF t = "none" THEN "Loading" ELSE t
      [] st = "LoadedHidden" -> IF t = "none" THEN "none" ELSE "LoadedHidden"
      [] OTHER -> t

RECURSIVE Follow(_, _)
Follow(t, path) ==
    IF path = <<>> THEN t ELSE Follow(Step1(t, Head(path)), Tail(path))

ReqKind(bMakeVisibleAfterLoad, W) ==
    IF bMakeVisibleAfterLoad THEN [kind |-> "LoadShow", W |-> W]
    ELSE [kind |-> "LoadHidden", W |-> W]

Requested(n, r, path) ==
    /\ lastReq' = IF n \in Sublevels THEN [lastReq EXCEPT ![n] = r] ELSE lastReq
    /\ reqBit' = IF n \in Sublevels THEN [reqBit EXCEPT ![n] = ~reqBit[n]] ELSE reqBit
    /\ trail' = [trail EXCEPT ![n] = Follow(trail[n], path)]
    /\ hiddenAcc' = IF n \in Sublevels THEN [hiddenAcc EXCEPT ![n] = 0] ELSE hiddenAcc
    /\ loadedAcc' = IF n \in Sublevels THEN [loadedAcc EXCEPT ![n] = 0] ELSE loadedAcc

Rejected(op) ==
    /\ lastCall' = [op |-> op, name |-> None]
    /\ reqLog' = <<>>
    /\ UNCHANGED <<ChunkRecords, engine, lastReq, reqBit, trail, hiddenAcc, loadedAcc>>

\* ----------------------------------------------------------------- state
Init ==
    /\ ChunkRecords = <<>>
    /\ engine = [s \in Sublevels |->
                   [bShouldBeLoaded |-> FALSE, bShouldBeVisible |-> FALSE,
                    bLoaded |-> FALSE, bVisible |-> FALSE]]
    /\ lastCall = [op |-> "Init", name |-> None]
    /\ reqLog = <<>>
    /\ lastReq = [n \in Sublevels |-> NoReq]
    /\ reqBit = [n \in Sublevels |-> FALSE]
    /\ trail = [n \in Names |-> "none"]
    /\ hiddenAcc = [n \in Sublevels |-> 0]
    /\ loadedAcc = [n \in Sublevels |-> 0]

\* --------------------------------------------------------------- the API
LoadChunkAsync(LevelName, bMakeVisibleAfterLoad, WarmUpSeconds) ==
    IF LevelName = None THEN Rejected("LoadChunkAsync")
    ELSE LET recs == GetOrAddRecord(ChunkRecords, LevelName)
             r == ApplyLoad(recs[LevelName], engine, bMakeVisibleAfterLoad, WarmUpSeconds)
         IN  /\ ChunkRecords' = [recs EXCEPT ![LevelName] = r.Rec]
             /\ engine' = r.eng
             /\ reqLog' = r.log
             /\ lastCall' = [op |-> "LoadChunkAsync", name |-> LevelName]
             /\ Requested(LevelName, ReqKind(bMakeVisibleAfterLoad, WarmUpSeconds), r.path)

UnloadChunkAsync(LevelName) ==
    IF LevelName = None THEN Rejected("UnloadChunkAsync")
    ELSE LET recs == GetOrAddRecord(ChunkRecords, LevelName)
             r == ApplyUnload(recs[LevelName], engine)
         IN  /\ ChunkRecords' = [recs EXCEPT ![LevelName] = r.Rec]
             /\ engine' = r.eng
             /\ reqLog' = r.log
             /\ lastCall' = [op |-> "UnloadChunkAsync", name |-> LevelName]
             /\ Requested(LevelName, [kind |-> "Unload", W |-> 0], r.path)

SetChunkVisible(LevelName, bVisible) ==
    IF LevelName = None THEN Rejected("SetChunkVisible")
    ELSE LET recs == GetOrAddRecord(ChunkRecords, LevelName)
             r == ApplyVisibility(recs[LevelName], engine, bVisible)
         IN  /\ ChunkRecords' = [recs EXCEPT ![LevelName] = r.Rec]
             /\ engine' = r.eng
             /\ reqLog' = r.log
             /\ lastCall' = [op |-> "SetChunkVisible", name |-> LevelName]
             /\ Requested(LevelName,
                          [kind |-> IF bVisible THEN "Show" ELSE "Hide", W |-> 0],
                          r.path)

\* a Tick counts towards a pending warm-up of chunk n ...
WarmUpPending(n) == lastReq[n].kind = "LoadShow" /\ lastReq[n].W > 0
\* ... when it is called while n is LoadedHidden
CalledWhileHidden(n) == StateOf(ChunkRecords, n) = "LoadedHidden"
\* ... when it is called with the engine reporting n's level loaded
CalledWhileLoaded(n) ==
    /\ n \in DOMAIN ChunkRecords
    /\ ChunkRecords[n].Streaming # NoStreaming
    /\ IsLevelLoaded(engine, ChunkRecords[n].Streaming)
    /\ ChunkRecords[n].State \in {"Loading", "LoadedHidden"}

Tick(DeltaTime) ==
    LET r == TickLoop(DOMAIN ChunkRecords, ChunkRecords, engine, <<>>,
                      [n \in Names |-> <<>>], DeltaTime)
    IN  /\ ChunkRecords' = r.recs
        /\ engine' = r.eng
        /\ reqLog' = r.log
        /\ lastCall' = [op |-> "Tick", name |-> None]
        /\ trail' = [n \in Names |-> Follow(trail[n], r.paths[n])]
        /\ hiddenAcc' = [n \in Sublevels |->
                IF WarmUpPending(n) /\ CalledWhileHidden(n)
                THEN Min(hiddenAcc[n] + DeltaTime, MaxWarm) ELSE hiddenAcc[n]]
        /\ loadedAcc' = [n \in Sublevels |->
                IF WarmUpPending(n) /\ CalledWhileLoaded(n)
                THEN Min(loadedAcc[n] + DeltaTime, MaxWarm) ELSE loadedAcc[n]]
        /\ UNCHANGED <<lastReq, reqBit>>

\* ------------------------------------------------------------ the engine
EngineStep(eng) ==
    /\ engine' = eng
    /\ lastCall' = [op |-> "Engine", name |-> None]
    /\ reqLog' = <<>>
    /\ UNCHANGED <<ChunkRecords, lastReq, reqBit, trail, hiddenAcc, loadedAcc>>

EngineCompleteLoad(sl) ==
    /\ engine[sl].bShouldBeLoaded /\ ~engine[sl].bLoaded
    /\ EngineStep([engine EXCEPT ![sl].bLoaded = TRUE])

EngineCompleteUnload(sl) ==
    /\ ~engine[sl].bShouldBeLoaded /\ engine[sl].bLoaded
    /\ EngineStep([engine EXCEPT ![sl].bLoaded = FALSE, ![sl].bVisible = FALSE])

EngineShow(sl) ==
    /\ engine[sl].bLoaded /\ engine[sl].bShouldBeVisible /\ ~engine[sl].bVisible
    /\ EngineStep([engine EXCEPT ![sl].bVisible = TRUE])

EngineHide(sl) ==
    /\ engine[sl].bVisible /\ ~engine[sl].bShouldBeVisible
    /\ EngineStep([engine EXCEPT ![sl].bVisible = FALSE])

\* ------------------------------------------------- UTLDCinematicManager
NoSequence == "NoSequence"
NoPlayer == "NoPlayer"
LevelSequences == {"SeqIntro", "SeqOutro"}
\* A delay matters only by its sign: none, negative, or the longest one.
PreDelayInputs == {0, MaxCineDelay}
PostDelayInputs == {0 - 1, 0, MaxCineDelay}

\* UTLDCinematicConfig::Cinematics: the first entry has no asset path, the
\* third repeats the name of the second, the fourth names an asset that
\* does not load.
Cinematics ==
    << [CinematicName |-> "Broken", bPathValid |-> FALSE, Loads |-> NoSequence],
       [CinematicName |-> "Act1_Intro", bPathValid |-> TRUE, Loads |-> "SeqIntro"],
       [CinematicName |-> "Act1_Intro", bPathValid |-> TRUE, Loads |-> "SeqOutro"],
       [CinematicName |-> "Stale", bPathValid |-> TRUE, Loads |-> NoSequence] >>
CinematicNames == {"", "Act1_Intro", "Broken", "Stale", "Unknown"}

RECURSIVE FirstMatch(_, _)
FirstMatch(i, CinematicName) ==
    IF i > Len(Cinematics) THEN NoSequence
    ELSE IF Cinematics[i].CinematicName = CinematicName /\ Cinematics[i].bPathValid
         THEN Cinematics[i].Loads
         ELSE FirstMatch(i + 1, CinematicName)

GetSequenceByName(CinematicName) == FirstMatch(1, CinematicName)

MgrWorld(m, w) == [m |-> m, w |-> w]

\* PC->SetPause(bPause) when the world has a player controller.
ApplyPause(w, bPause) == IF w.bHasPC THEN [w EXCEPT !.bPaused = bPause] ELSE w

StartSequence(S, bCreateOk) ==
    IF S.m.PendingSequence = NoSequence
    THEN MgrWorld([S.m EXCEPT !.bIsPlaying = FALSE], S.w)
    ELSE IF ~bCreateOk
    THEN MgrWorld([S.m EXCEPT !.ActivePlayer = NoPlayer, !.bIsPlaying = FALSE], S.w)
    ELSE MgrWorld([S.m EXCEPT !.ActivePlayer = S.m.PendingSequence,
                              !.bAllowSkip = S.m.bPendingSkippable],
                  [ApplyPause(S.w, S.m.bPendingPause) EXCEPT !.player = "Playing"])

\* The body of the post-delay lambda, and of the branch without post-delay.
FinishNow(S) ==
    MgrWorld([S.m EXCEPT !.ActivePlayer = NoPlayer, !.bIsPlaying = FALSE],
             ApplyPause(S.w, FALSE))

HandleSequenceFinished_UnpausesFirst(S) ==
    LET m1 == [S.m EXCEPT !.bAllowSkip = FALSE]
    IN  IF m1.PendingPostDelay > 0
        THEN MgrWorld([m1 EXCEPT !.PostDelayHandle = TRUE], ApplyPause(S.w, FALSE))
        ELSE FinishNow(MgrWorld(m1, S.w))

HandleSequenceFinished(S) ==
    LET m1 == [S.m EXCEPT !.bAllowSkip = FALSE]
    IN  IF m1.PendingPostDelay > 0
        THEN MgrWorld([m1 EXCEPT !.PostDelayHandle = TRUE], S.w)
        ELSE FinishNow(MgrWorld(m1, S.w))

PlaySequenceOp_NoBusyCheck(S, Sequence, bPauseGame, bSkippable, PreDelay, PostDelay, bCreateOk) ==
    IF Sequence = NoSequence THEN S
    ELSE LET m1 == [S.m EXCEPT !.PendingSequence = Sequence,
                               !.bPendingPause = bPauseGame,
                               !.bPendingSkippable = bSkippable,
                               !.PendingPostDelay = Max(0, PostDelay),
                               !.bIsPlaying = TRUE,
                               !.bAllowSkip = FALSE]
         IN  IF PreDelay > 0
             THEN MgrWorld([m1 EXCEPT !.PreDelayHandle = TRUE], S.w)
             ELSE StartSequence(MgrWorld(m1, S.w), bCreateOk)

PlaySequenceOp(S, Sequence, bPauseGame, bSkippable, PreDelay, PostDelay, bCreateOk) ==
    IF Sequence = NoSequence THEN S
    ELSE IF S.m.bIsPlaying THEN S
    ELSE LET m1 == [S.m EXCEPT !.PendingSequence = Sequence,
                               !.bPendingPause = bPauseGame,
                               !.bPendingSkippable = bSkippable,
                               !.PendingPostDelay = Max(0, PostDelay),
                               !.bIsPlaying = TRUE,
                               !.bAllowSkip = FALSE]
         IN  IF PreDelay > 0
             THEN MgrWorld([m1 EXCEPT !.PreDelayHandle = TRUE], S.w)
             ELSE StartSequence(MgrWorld(m1, S.w), bCreateOk)

ByNameResult(S, ret) == [S |-> S, ret |-> ret]

PlayCinematicByNameOp(S, CinematicName, bPauseGame, bSkippable, PreDelay, PostDelay, bCreateOk) ==
    IF CinematicName = "" THEN ByNameResult(S, FALSE)
    ELSE IF ~S.w.bHasConfig THEN ByNameResult(S, FALSE)
    ELSE IF GetSequenceByName(CinematicName) = NoSequence THEN ByNameResult(S, FALSE)
    ELSE ByNameResult(PlaySequenceOp(S, GetSequenceByName(CinematicName), bPauseGame,
                                     bSkippable, PreDelay, PostDelay, bCreateOk), TRUE)

SkipCurrentCinematicOp_IgnoresAllowSkip(S) ==
    IF ~S.m.bIsPlaying \/ S.m.ActivePlayer = NoPlayer THEN S
    ELSE HandleSequenceFinished(MgrWorld(S.m, [S.w EXCEPT !.player = "Stopped"]))

SkipCurrentCinematicOp(S) ==
    IF ~S.m.bIsPlaying \/ ~S.m.bAllowSkip \/ S.m.ActivePlayer = NoPlayer THEN S
    ELSE HandleSequenceFinished(MgrWorld(S.m, [S.w EXCEPT !.player = "Stopped"]))

CineCalled(op, Sequence, ret) ==
    cineCall' = [op |-> op, Sequence |-> Sequence, ret |-> ret,
                 busy |-> mgr.bIsPlaying, bit |-> ~cineCall.bit]

MgrDefault ==
    [PendingSequence |-> NoSequence, bPendingPause |-> FALSE,
     bPendingSkippable |-> FALSE, PendingPostDelay |-> 0,
     bIsPlaying |-> FALSE, bAllowSkip |-> FALSE, ActivePlayer |-> NoPlayer,
     PreDelayHandle |-> FALSE, PostDelayHandle |-> FALSE]

CineWorlds ==
    [bPaused : {FALSE}, player : {"None"}, bHasPC : BOOLEAN, bHasConfig : BOOLEAN]

NoCineCall ==
    [op |-> "Init", Sequence |-> NoSequence, ret |-> FALSE, busy |-> FALSE, bit |-> FALSE]

CineInit ==
    /\ mgr = MgrDefault
    /\ cworld \in CineWorlds
    /\ cineCall = NoCineCall

\* The cinematic manager of a game that plays no cinematic.
CineUnused ==
    /\ mgr = MgrDefault
    /\ cworld = [bPaused |-> FALSE, player |-> "None", bHasPC |-> TRUE, bHasConfig |-> TRUE]
    /\ cineCall = NoCineCall

PlaySequence(Sequence, bPauseGame, bSkippable, PreDelay, PostDelay, bCreateOk) ==
    LET S == PlaySequenceOp(MgrWorld(mgr, cworld), Sequence, bPauseGame, bSkippable,
                            PreDelay, PostDelay, bCreateOk)
    IN  /\ mgr' = S.m
        /\ cworld' = S.w
        /\ CineCalled("PlaySequence", Sequence, FALSE)

PlayCinematicByName(CinematicName, bPauseGame, bSkippable, PreDelay, PostDelay, bCreateOk) ==
    LET R == PlayCinematicByNameOp(MgrWorld(mgr, cworld), CinematicName, bPauseGame,
                                   bSkippable, PreDelay, PostDelay, bCreateOk)
    IN  /\ mgr' = R.S.m
        /\ cworld' = R.S.w
        /\ CineCalled("PlayCinematicByName", GetSequenceByName(CinematicName), R.ret)

SkipCurrentCinematic ==
    LET S == SkipCurrentCinematicOp(MgrWorld(mgr, cworld))
    IN  /\ mgr' = S.m
        /\ cworld' = S.w
        /\ CineCalled("SkipCurrentCinematic", NoSequence, FALSE)

\* World timers count game time: they do not advance while the game is paused.
PreDelayElapsed(bCreateOk) ==
    /\ mgr.PreDelayHandle
    /\ ~cworld.bPaused
    /\ LET S == StartSequence(MgrWorld([mgr EXCEPT !.PreDelayHandle = FALSE], cworld),
                              bCreateOk)
       IN  mgr' = S.m /\ cworld' = S.w
    /\ cineCall' = [cineCall EXCEPT !.op = "StartSequence"]

PostDelayElapsed ==
    /\ mgr.PostDelayHandle
    /\ ~cworld.bPaused
    /\ LET S == FinishNow(MgrWorld([mgr EXCEPT !.PostDelayHandle = FALSE], cworld))
       IN  mgr' = S.m /\ cworld' = S.w
    /\ cineCall' = [cineCall EXCEPT !.op = "PostDelay"]

\* ActivePlayer->OnFinished: the sequence player reached the end.
OnFinished ==
    /\ cworld.player = "Playing"
    /\ LET S == HandleSequenceFinished(
                    MgrWorld(mgr, [cworld EXCEPT !.player = "Finished"]))
       IN  mgr' = S.m /\ cworld' = S.w
    /\ cineCall' = [cineCall EXCEPT !.op = "HandleSequenceFinished"]

\* ------------------------------------------------- ATLDCinematicTrigger
NoActor == "nullptr_actor"
Actors == {NoActor, "PlayerPawn", "AIPawn", "Prop"}
IsPawn(a) == a \in {"PlayerPawn", "AIPawn"}
IsPlayerControlled(a) == a = "PlayerPawn"

CTrigProperties ==
    [bOneShot : BOOLEAN, bOnlyPlayerPawn : BOOLEAN,
     CinematicName : {"", "Act1_Intro", "Unknown"},
     bPauseGame : BOOLEAN, bSkippable : {TRUE},
     PreDelay : {0, MaxCineDelay}, PostDelay : {0, MaxCineDelay}]

CTrigAfterBeginPlay(props) ==
    [props |-> props, bHasFired |-> FALSE, CachedManager |-> FALSE,
     bInitialCheck |-> TRUE, Requests |-> 0]

TrigResult(T, S, call) == [T |-> T, S |-> S, call |-> call]
NoCall == [made |-> FALSE, ret |-> FALSE]

\* GetGameInstance()->GetSubsystem<UTLDCinematicManager>(), cached once found.
CT_ResolveManager(T, bGameInstance) ==
    IF T.CachedManager THEN T ELSE [T EXCEPT !.CachedManager = bGameInstance]

IsValidInstigator(T, OtherActor) ==
    IF OtherActor = NoActor THEN FALSE
    ELSE IF T.props.bOnlyPlayerPawn
         THEN IsPawn(OtherActor) /\ IsPlayerControlled(OtherActor)
         ELSE TRUE

TriggerCinematic(T, S, bCreateOk) ==
    IF ~T.CachedManager THEN TrigResult(T, S, NoCall)
    ELSE IF T.props.CinematicName = "" THEN TrigResult(T, S, NoCall)
    ELSE LET R == PlayCinematicByNameOp(S, T.props.CinematicName, T.props.bPauseGame,
                                        T.props.bSkippable, T.props.PreDelay,
                                        T.props.PostDelay, bCreateOk)
         IN  TrigResult([T EXCEPT !.Requests = Min(T.Requests + 1, MaxRequests)],
                        R.S, [made |-> TRUE, ret |-> R.ret])

SetFired(R) == IF R.T.props.bOneShot THEN [R EXCEPT !.T.bHasFired = TRUE] ELSE R

CT_OnBoxBeginOverlapOp_NoFiredCheck(T, S, OtherActor, bGameInstance, bCreateOk) ==
    IF ~IsValidInstigator(T, OtherActor) THEN TrigResult(T, S, NoCall)
    ELSE IF ~CT_ResolveManager(T, bGameInstance).CachedManager
    THEN TrigResult(CT_ResolveManager(T, bGameInstance), S, NoCall)
    ELSE SetFired(TriggerCinematic(CT_ResolveManager(T, bGameInstance), S, bCreateOk))

CT_OnBoxBeginOverlapOp(T, S, OtherActor, bGameInstance, bCreateOk) ==
    IF T.props.bOneShot /\ T.bHasFired THEN TrigResult(T, S, NoCall)
    ELSE IF ~IsValidInstigator(T, OtherActor) THEN TrigResult(T, S, NoCall)
    ELSE IF ~CT_ResolveManager(T, bGameInstance).CachedManager
    THEN TrigResult(CT_ResolveManager(T, bGameInstance), S, NoCall)
    ELSE SetFired(TriggerCinematic(CT_ResolveManager(T, bGameInstance), S, bCreateOk))

CTrigInit == ctrig \in {CTrigAfterBeginPlay(p) : p \in CTrigProperties}

\* A level without a cinematic trigger that matters: one that was never set up.
CTrigUnused ==
    ctrig = [CTrigAfterBeginPlay(
                [bOneShot |-> TRUE, bOnlyPlayerPawn |-> TRUE, CinematicName |-> "",
                 bPauseGame |-> FALSE, bSkippable |-> TRUE, PreDelay |-> 0,
                 PostDelay |-> 0]) EXCEPT !.bInitialCheck = FALSE]

CTrigApply(R) ==
    /\ ctrig' = R.T
    /\ mgr' = R.S.m
    /\ cworld' = R.S.w
    /\ IF R.call.made
       THEN CineCalled("PlayCinematicByName",
                       GetSequenceByName(ctrig.props.CinematicName), R.call.ret)
       ELSE cineCall' = [cineCall EXCEPT !.op = "Trigger"]

CT_OnBoxBeginOverlap(OtherActor, bGameInstance, bCreateOk) ==
    CTrigApply(CT_OnBoxBeginOverlapOp(ctrig, MgrWorld(mgr, cworld), OtherActor,
                                bGameInstance, bCreateOk))

\* The timer BeginPlay sets; bOverlapping: the box overlaps the player pawn,
\* bPlayerPawn: GetPlayerPawn found one.
CT_CheckInitialOverlapOnce(bPlayerPawn, bOverlapping, bGameInstance, bCreateOk) ==
    /\ ctrig.bInitialCheck
    /\ ~cworld.bPaused
    /\ LET T == [ctrig EXCEPT !.bInitialCheck = FALSE]
       IN  IF bPlayerPawn /\ bOverlapping
           THEN CTrigApply(CT_OnBoxBeginOverlapOp(T, MgrWorld(mgr, cworld), "PlayerPawn",
                                            bGameInstance, bCreateOk))
           ELSE CTrigApply(TrigResult(T, MgrWorld(mgr, cworld), NoCall))

\* ------------------------------------------------- ATLDStreamingTrigger
\* A level asset is its soft object path, as the sequence of its segments;
\* the asset that is not set has no path.
UnsetAsset == <<>>
LevelAssets ==
    {UnsetAsset, <<"Game", "Maps", "Forest_Combat">>, <<"Game", "Maps", "Missing">>}

AssetToShortLevelName(LevelAsset) ==
    IF LevelAsset = UnsetAsset THEN None ELSE LevelAsset[Len(LevelAsset)]

\* UTLDLevelConfig::LevelGroups, and the lookup by group name.
LevelGroups ==
    [Forest |-> << <<"Game", "Maps", "Forest_Combat">>, UnsetAsset,
                   <<"Game", "Maps", "Missing">>, <<"Game", "Maps", "Forest_Combat">> >>]
LevelGroupNames == {"", "Forest"}
GetLevelsInGroup(LevelGroupName) ==
    IF LevelGroupName \in DOMAIN LevelGroups THEN LevelGroups[LevelGroupName] ELSE <<>>

STrigProperties ==
    [bOnlyPlayerPawn : BOOLEAN, bOneShot : BOOLEAN, bUnloadOnExit : BOOLEAN,
     LevelGroupName : LevelGroupNames, bVisibleAfterLoad : BOOLEAN,
     WarmUpSeconds : {MaxWarm}]

STrigAfterBeginPlay(props) ==
    [props |-> props, bHasFired |-> FALSE, LoadedByThisTrigger |-> <<>>,
     CachedManager |-> FALSE, bInitialCheck |-> TRUE]

\* The streaming manager as the trigger's calls see it.
Manager(recs, eng, log) == [recs |-> recs, eng |-> eng, log |-> log]
ST_Result(T, M) == [T |-> T, M |-> M]

ManagerLoadChunkAsync(M, LevelName, bMakeVisibleAfterLoad, WarmUpSeconds) ==
    IF LevelName = None THEN M
    ELSE LET recs == GetOrAddRecord(M.recs, LevelName)
             r == ApplyLoad(recs[LevelName], M.eng, bMakeVisibleAfterLoad, WarmUpSeconds)
         IN  Manager([recs EXCEPT ![LevelName] = r.Rec], r.eng, M.log \o r.log)

ManagerUnloadChunkAsync(M, LevelName) ==
    IF LevelName = None THEN M
    ELSE LET recs == GetOrAddRecord(M.recs, LevelName)
             r == ApplyUnload(recs[LevelName], M.eng)
         IN  Manager([recs EXCEPT ![LevelName] = r.Rec], r.eng, M.log \o r.log)

AddUnique(arr, x) ==
    IF \E i \in 1..Len(arr) : arr[i] = x THEN arr ELSE Append(arr, x)

\* ManagerOverride if valid, else GetActorOfClass; cached once found.
ST_ResolveManager(T, bFound) ==
    IF T.CachedManager THEN T ELSE [T EXCEPT !.CachedManager = bFound]

RECURSIVE LoadGroupLevels(_, _)
LoadGroupLevels(GroupLevels, R) ==
    IF GroupLevels = <<>> THEN R
    ELSE LET Short == AssetToShortLevelName(Head(GroupLevels))
         IN  IF Short = None THEN LoadGroupLevels(Tail(GroupLevels), R)
             ELSE LoadGroupLevels(
                     Tail(GroupLevels),
                     ST_Result(
                        [R.T EXCEPT !.LoadedByThisTrigger = AddUnique(@, Short)],
                        ManagerLoadChunkAsync(R.M, Short, R.T.props.bVisibleAfterLoad,
                                              R.T.props.WarmUpSeconds)))

LoadConfiguredLevels(T, M, bConfig) ==
    LET T1 == [T EXCEPT !.LoadedByThisTrigger = <<>>]
    IN  IF T.props.LevelGroupName = "" THEN ST_Result(T1, M)
        ELSE IF ~bConfig THEN ST_Result(T1, M)
        ELSE LoadGroupLevels(GetLevelsInGroup(T.props.LevelGroupName), ST_Result(T1, M))

RECURSIVE UnloadTracked(_, _)
UnloadTracked(Loaded, M) ==
    IF Loaded = <<>> THEN M
    ELSE UnloadTracked(Tail(Loaded), ManagerUnloadChunkAsync(M, Head(Loaded)))

IsPlayerPawn(OtherActor) == IsPawn(OtherActor) /\ IsPlayerControlled(OtherActor)

ST_OnBoxBeginOverlapOp_NoPlayerFilter(T, M, OtherActor, bFound, bConfig) ==
    IF T.props.bOneShot /\ T.bHasFired THEN ST_Result(T, M)
    ELSE IF ~ST_ResolveManager(T, bFound).CachedManager
    THEN ST_Result(ST_ResolveManager(T, bFound), M)
    ELSE LET R == LoadConfiguredLevels(ST_ResolveManager(T, bFound), M, bConfig)
         IN  IF T.props.bOneShot THEN [R EXCEPT !.T.bHasFired = TRUE] ELSE R

ST_OnBoxBeginOverlapOp(T, M, OtherActor, bFound, bConfig) ==
    IF T.props.bOnlyPlayerPawn /\ ~IsPlayerPawn(OtherActor) THEN ST_Result(T, M)
    ELSE IF T.props.bOneShot /\ T.bHasFired THEN ST_Result(T, M)
    ELSE IF ~ST_ResolveManager(T, bFound).CachedManager
    THEN ST_Result(ST_ResolveManager(T, bFound), M)
    ELSE LET R == LoadConfiguredLevels(ST_ResolveManager(T, bFound), M, bConfig)
         IN  IF T.props.bOneShot THEN [R EXCEPT !.T.bHasFired = TRUE] ELSE R

ST_OnBoxEndOverlapOp(T, M, OtherActor, bFound) ==
    IF T.props.bOnlyPlayerPawn /\ ~IsPlayerPawn(OtherActor) THEN ST_Result(T, M)
    ELSE IF ~T.props.bUnloadOnExit THEN ST_Result(T, M)
    ELSE LET T1 == ST_ResolveManager(T, bFound)
         IN  ST_Result([T1 EXCEPT !.LoadedByThisTrigger = <<>>, !.bHasFired = FALSE],
                       IF T1.CachedManager
                       THEN UnloadTracked(T.LoadedByThisTrigger, M)
                       ELSE M)

ST_CheckInitialOverlapOnceOp(T, M, bFound, bPlayerPawn, bOverlapping, bConfig) ==
    IF T.bHasFired /\ T.props.bOneShot THEN ST_Result(T, M)
    ELSE IF ~ST_ResolveManager(T, bFound).CachedManager
    THEN ST_Result(ST_ResolveManager(T, bFound), M)
    ELSE IF ~bPlayerPawn THEN ST_Result(ST_ResolveManager(T, bFound), M)
    ELSE IF bOverlapping
    THEN ST_OnBoxBeginOverlapOp(ST_ResolveManager(T, bFound), M, "PlayerPawn",
                                bFound, bConfig)
    ELSE ST_Result(ST_ResolveManager(T, bFound), M)

NoSTrigCall == [op |-> "Init", OtherActor |-> NoActor]

STrigInit ==
    /\ strig \in {STrigAfterBeginPlay(p) : p \in STrigProperties}
    /\ strigCall = NoSTrigCall
    /\ inside = {}

\* A level without a streaming trigger that matters: one that was never set up.
STrigUnused ==
    /\ strig = [STrigAfterBeginPlay(
                  [bOnlyPlayerPawn |-> TRUE, bOneShot |-> TRUE, bUnloadOnExit |-> FALSE,
                   LevelGroupName |-> "", bVisibleAfterLoad |-> TRUE,
                   WarmUpSeconds |-> MaxWarm]) EXCEPT !.bInitialCheck = FALSE]
    /\ strigCall = NoSTrigCall
    /\ inside = {}

\* What a trigger handler leaves behind: the trigger, and the manager's
\* records and the engine requests its calls made.
STrigApply(op, OtherActor, R) ==
    /\ strig' = R.T
    /\ ChunkRecords' = R.M.recs
    /\ engine' = R.M.eng
    /\ reqLog' = R.M.log
    /\ strigCall' = [op |-> op, OtherActor |-> OtherActor]
    /\ UNCHANGED <<lastCall, lastReq, reqBit, trail, hiddenAcc, loadedAcc>>

ST_OnBoxBeginOverlap(OtherActor, bFound, bConfig) ==
    /\ OtherActor \notin inside
    /\ inside' = IF OtherActor = NoActor THEN inside ELSE inside \cup {OtherActor}
    /\ STrigApply("OnBoxBeginOverlap", OtherActor,
                  ST_OnBoxBeginOverlapOp(strig, Manager(ChunkRecords, engine, <<>>),
                                         OtherActor, bFound, bConfig))

ST_OnBoxEndOverlap(OtherActor, bFound) ==
    /\ OtherActor \in inside \cup {NoActor}
    /\ inside' = inside \ {OtherActor}
    /\ STrigApply("OnBoxEndOverlap", OtherActor,
                  ST_OnBoxEndOverlapOp(strig, Manager(ChunkRecords, engine, <<>>),
                                       OtherActor, bFound))

\* The timer BeginPlay sets; bPlayerPawn: GetPlayerPawn found one.
ST_CheckInitialOverlapOnce(bFound, bPlayerPawn, bConfig) ==
    /\ strig.bInitialCheck
    /\ inside' = inside
    /\ STrigApply("CheckInitialOverlapOnce", "PlayerPawn",
                  ST_CheckInitialOverlapOnceOp(
                     [strig EXCEPT !.bInitialCheck = FALSE],
                     Manager(ChunkRecords, engine, <<>>),
                     bFound, bPlayerPawn, "PlayerPawn" \in inside, bConfig))

\* ---------------------------------------------------------- UTLDUIManager
NoWidget == 0
NoConfig == "nullptr_config"
WidgetIds == 1..MaxWidgets
Overlays == {"HUD", "Pause", "Wolf"}

\* UTLDUiConfig::Overlays of the config assets a game may install: in Main
\* the HUD is persistent and the pause menu is not, Alt swaps that and has
\* an entry without a widget class; neither configures every overlay.
UIConfigs ==
    [Main |-> [HUD |-> [bHasWidgetClass |-> TRUE, bPersistent |-> TRUE,
                        InputMode |-> "GameOnly"],
               Pause |-> [bHasWidgetClass |-> TRUE, bPersistent |-> FALSE,
                          InputMode |-> "UIOnly"]],
     Alt |-> [HUD |-> [bHasWidgetClass |-> FALSE, bPersistent |-> FALSE,
                       InputMode |-> "GameOnly"],
              Pause |-> [bHasWidgetClass |-> TRUE, bPersistent |-> TRUE,
                         InputMode |-> "GameAndUI"]]]
ConfigInputs == {NoConfig} \cup DOMAIN UIConfigs

UIState(m, W, world) == [m |-> m, W |-> W, world |-> world]
UIResult(U, ret) == [U |-> U, ret |-> ret]

\* TWeakObjectPtr::Get(): the widget, unless it was never set or was collected.
Get(W, w) == IF w # NoWidget /\ W[w].life = "Alive" THEN w ELSE NoWidget

Unborn(W) == {w \in WidgetIds : W[w].life = "Unborn"}
NewWidget(W) == CHOOSE w \in Unborn(W) : \A v \in Unborn(W) : w <= v

\* The pool loop of CreateOrReuse: from the last entry down, dead weak
\* pointers are removed, the first live one is removed and returned.
RECURSIVE ScanPool(_, _)
ScanPool(Pool, W) ==
    IF Pool = <<>> THEN [Pool |-> <<>>, P |-> NoWidget]
    ELSE IF Get(W, Pool[Len(Pool)]) # NoWidget
         THEN [Pool |-> SubSeq(Pool, 1, Len(Pool) - 1), P |-> Pool[Len(Pool)]]
         ELSE ScanPool(SubSeq(Pool, 1, Len(Pool) - 1), W)

CreateOrReuse_IgnoresPool(U, Overlay, Cfg, bCreated) ==
    IF Get(U.W, U.m.LiveWidgets[Overlay]) # NoWidget
    THEN UIResult(U, U.m.LiveWidgets[Overlay])
    ELSE IF ~Cfg.bHasWidgetClass THEN UIResult(U, NoWidget)
    ELSE IF bCreated
    THEN LET NewW == NewWidget(U.W)
         IN  UIResult(UIState([U.m EXCEPT !.LiveWidgets[Overlay] = NewW],
                              [U.W EXCEPT ![NewW] = [life |-> "Alive",
                                                     bInViewport |-> FALSE,
                                                     bVisible |-> TRUE]],
                              U.world),
                      NewW)
    ELSE UIResult(U, NoWidget)

CreateOrReuse(U, Overlay, Cfg, bCreated) ==
    IF Get(U.W, U.m.LiveWidgets[Overlay]) # NoWidget
    THEN UIResult(U, U.m.LiveWidgets[Overlay])
    ELSE LET scan == ScanPool(U.m.Pooled[Overlay], U.W)
             m1 == [U.m EXCEPT !.Pooled[Overlay] = scan.Pool]
         IN  IF scan.P # NoWidget
             THEN UIResult(UIState([m1 EXCEPT !.LiveWidgets[Overlay] = scan.P],
                                   U.W, U.world),
                           scan.P)
             ELSE IF ~Cfg.bHasWidgetClass THEN UIResult(UIState(m1, U.W, U.world), NoWidget)
             ELSE IF bCreated
             THEN LET NewW == NewWidget(U.W)
                  IN  UIResult(UIState([m1 EXCEPT !.LiveWidgets[Overlay] = NewW],
                                       [U.W EXCEPT ![NewW] = [life |-> "Alive",
                                                              bInViewport |-> FALSE,
                                                              bVisible |-> TRUE]],
                                       U.world),
                               NewW)
             ELSE UIResult(UIState(m1, U.W, U.world), NoWidget)

\* AddToViewport unless already there, visibility SelfHitTestInvisible.
AddToViewportIfNeeded(W, Widget) ==
    [W EXCEPT ![Widget].bInViewport = TRUE, ![Widget].bVisible = TRUE]

ApplyInputMode(world, Mode) ==
    IF world.bHasPC THEN [world EXCEPT !.InputMode = Mode] ELSE world

CacheHUDIfPresent(U) ==
    IF Get(U.W, U.m.LiveWidgets["HUD"]) # NoWidget
    THEN [U EXCEPT !.m.HUDRoot = U.m.LiveWidgets["HUD"]]
    ELSE U

ReturnToPoolOrDiscard_KeepsLive(U, Overlay, Widget, bKeepInPool) ==
    IF Widget = NoWidget THEN U
    ELSE UIState(
            IF bKeepInPool
            THEN [U.m EXCEPT !.Pooled[Overlay] = Append(@, Widget)]
            ELSE U.m,
            [U.W EXCEPT ![Widget].bInViewport = FALSE, ![Widget].bVisible = FALSE],
            U.world)

ReturnToPoolOrDiscard(U, Overlay, Widget, bKeepInPool) ==
    IF Widget = NoWidget THEN U
    ELSE UIState(
            IF bKeepInPool
            THEN [U.m EXCEPT !.LiveWidgets[Overlay] = NoWidget,
                             !.Pooled[Overlay] = Append(@, Widget)]
            ELSE [U.m EXCEPT !.LiveWidgets[Overlay] = NoWidget],
            [U.W EXCEPT ![Widget].bInViewport = FALSE, ![Widget].bVisible = FALSE],
            U.world)

OverlayConfigured(U, Overlay) ==
    /\ U.m.CurrentConfig # NoConfig
    /\ Overlay \in DOMAIN UIConfigs[U.m.CurrentConfig]

ShowOverlayOp(U, Overlay, bCreated) ==
    IF U.m.CurrentConfig = NoConfig THEN UIResult(U, NoWidget)
    ELSE IF Overlay \notin DOMAIN UIConfigs[U.m.CurrentConfig] THEN UIResult(U, NoWidget)
    ELSE LET Cfg == UIConfigs[U.m.CurrentConfig][Overlay]
             R == CreateOrReuse(U, Overlay, Cfg, bCreated)
         IN  IF R.ret = NoWidget THEN R
             ELSE LET U1 == UIState(R.U.m, AddToViewportIfNeeded(R.U.W, R.ret),
                                    ApplyInputMode(R.U.world, Cfg.InputMode))
                  IN  UIResult(IF Overlay = "HUD" THEN CacheHUDIfPresent(U1) ELSE U1,
                               R.ret)

HideOverlayOp(U, Overlay) ==
    IF U.m.CurrentConfig = NoConfig THEN U
    ELSE IF Overlay \notin DOMAIN UIConfigs[U.m.CurrentConfig] THEN U
    ELSE IF Get(U.W, U.m.LiveWidgets[Overlay]) = NoWidget THEN U
    ELSE LET Cfg == UIConfigs[U.m.CurrentConfig][Overlay]
             w1 == IF Cfg.InputMode # "GameOnly"
                   THEN ApplyInputMode(U.world, "GameOnly")
                   ELSE U.world
             w2 == IF Overlay = "Pause" THEN [w1 EXCEPT !.bGamePaused = FALSE] ELSE w1
         IN  ReturnToPoolOrDiscard(UIState(U.m, U.W, w2), Overlay,
                                   U.m.LiveWidgets[Overlay], Cfg.bPersistent)

IsOverlayVisible(U, Overlay) ==
    IF Get(U.W, U.m.LiveWidgets[Overlay]) # NoWidget
    THEN U.W[U.m.LiveWidgets[Overlay]].bVisible
    ELSE FALSE

ToggleOverlayOp(U, Overlay, bCreated) ==
    IF IsOverlayVisible(U, Overlay)
    THEN UIResult(HideOverlayOp(U, Overlay), NoWidget)
    ELSE ShowOverlayOp(U, Overlay, bCreated)

\* The call would have to create a widget: no live one, none alive in the pool.
NeedsNewWidget(U, Overlay) ==
    /\ OverlayConfigured(U, Overlay)
    /\ Get(U.W, U.m.LiveWidgets[Overlay]) = NoWidget
    /\ ScanPool(U.m.Pooled[Overlay], U.W).P = NoWidget
    /\ UIConfigs[U.m.CurrentConfig][Overlay].bHasWidgetClass

NoUICall ==
    [op |-> "Init", Overlay |-> "HUD", ret |-> NoWidget, hid |-> NoWidget,
     kept |-> FALSE, bit |-> FALSE]

UIManagerAfterInitialize(cfg) ==
    [CurrentConfig |-> cfg, LiveWidgets |-> [o \in Overlays |-> NoWidget],
     Pooled |-> [o \in Overlays |-> <<>>], HUDRoot |-> NoWidget]

NoWidgets ==
    [w \in WidgetIds |-> [life |-> "Unborn", bInViewport |-> FALSE, bVisible |-> FALSE]]

UIInit ==
    /\ ui \in {UIManagerAfterInitialize(cfg) : cfg \in {NoConfig, "Main"}}
    /\ widgets = NoWidgets
    /\ uiworld \in [InputMode : {"GameOnly"}, bGamePaused : {FALSE}, bHasPC : BOOLEAN]
    /\ uiCall = NoUICall

\* The UI manager of a game that shows no overlay.
UIUnused ==
    /\ ui = UIManagerAfterInitialize(NoConfig)
    /\ widgets = NoWidgets
    /\ uiworld = [InputMode |-> "GameOnly", bGamePaused |-> FALSE, bHasPC |-> TRUE]
    /\ uiCall = NoUICall

UIApply(U) == ui' = U.m /\ widgets' = U.W /\ uiworld' = U.world

UICurrent == UIState(ui, widgets, uiworld)

SetConfig(InConfig) ==
    /\ ui' = [ui EXCEPT !.CurrentConfig = InConfig]
    /\ uiCall' = [op |-> "SetConfig", Overlay |-> "HUD", ret |-> NoWidget,
                  hid |-> NoWidget, kept |-> FALSE, bit |-> ~uiCall.bit]
    /\ UNCHANGED <<widgets, uiworld>>

\* The call before this one was a HideOverlay of the same overlay that took
\* a widget out of LiveWidgets; a ShowOverlay then carries that call's hid
\* and kept along.
HidJustBefore(Overlay) ==
    uiCall.op = "HideOverlay" /\ uiCall.Overlay = Overlay /\ uiCall.hid # NoWidget

ShowOverlay(Overlay, bCreated) ==
    /\ (NeedsNewWidget(UICurrent, Overlay) /\ bCreated) => Unborn(widgets) # {}
    /\ LET R == ShowOverlayOp(UICurrent, Overlay, bCreated)
       IN  /\ UIApply(R.U)
           /\ uiCall' = [op |-> "ShowOverlay", Overlay |-> Overlay, ret |-> R.ret,
                         hid |-> IF HidJustBefore(Overlay) THEN uiCall.hid ELSE NoWidget,
                         kept |-> HidJustBefore(Overlay) /\ uiCall.kept,
                         bit |-> ~uiCall.bit]

\* hid: the widget this call took out of LiveWidgets; kept: it went to the pool.
HideOverlay(Overlay) ==
    /\ UIApply(HideOverlayOp(UICurrent, Overlay))
    /\ uiCall' = [op |-> "HideOverlay", Overlay |-> Overlay, ret |-> NoWidget,
                  hid |-> IF ui'.LiveWidgets[Overlay] # ui.LiveWidgets[Overlay]
                          THEN ui.LiveWidgets[Overlay] ELSE NoWidget,
                  kept |-> OverlayConfigured(UICurrent, Overlay)
                           /\ UIConfigs[ui.CurrentConfig][Overlay].bPersistent,
                  bit |-> ~uiCall.bit]

ToggleOverlay(Overlay, bCreated) ==
    /\ (~IsOverlayVisible(UICurrent, Overlay) /\ NeedsNewWidget(UICurrent, Overlay)
          /\ bCreated) => Unborn(widgets) # {}
    /\ LET R == ToggleOverlayOp(UICurrent, Overlay, bCreated)
       IN  /\ UIApply(R.U)
           /\ uiCall' = [op |-> "ToggleOverlay", Overlay |-> Overlay, ret |-> R.ret,
                         hid |-> NoWidget, kept |-> FALSE, bit |-> ~uiCall.bit]

\* The engine's garbage collector: LiveWidgets, Pooled and HUDRoot hold weak
\* pointers, so a widget that is not in the viewport is kept alive by nothing.
GarbageCollect(w) ==
    /\ widgets[w].life = "Alive"
    /\ ~widgets[w].bInViewport
    /\ widgets' = [widgets EXCEPT ![w].life = "Dead", ![w].bVisible = FALSE]
    /\ uiCall' = [uiCall EXCEPT !.op = "GarbageCollect"]
    /\ UNCHANGED <<ui, uiworld>>

\* The game pauses (the pause overlay's owner calls SetGamePaused(true)).
GamePaused ==
    /\ ~uiworld.bGamePaused
    /\ uiworld' = [uiworld EXCEPT !.bGamePaused = TRUE]
    /\ uiCall' = [uiCall EXCEPT !.op = "SetGamePaused"]
    /\ UNCHANGED <<ui, widgets>>

\* ------------------------------------------------------- specifications
notStreamVars == <<cineVars, ctrigVars, strigVars, uiVars>>
notCineVars == <<streamVars, ctrigVars, strigVars, uiVars>>
notCTrigVars == <<streamVars, strigVars, uiVars>>
notUIVars == <<streamVars, cineVars, ctrigVars, strigVars>>

\* The streaming manager alone.
SpecInit == Init /\ CineUnused /\ CTrigUnused /\ STrigUnused /\ UIUnused

Next ==
    \/ \E n \in Names, b \in BOOLEAN, w \in WarmUpInputs : LoadChunkAsync(n, b, w) /\ UNCHANGED notStreamVars
    \/ \E n \in Names : UnloadChunkAsync(n) /\ UNCHANGED notStreamVars
    \/ \E n \in Names, b \in BOOLEAN : SetChunkVisible(n, b) /\ UNCHANGED notStreamVars
    \/ \E dt \in DeltaTimes : Tick(dt) /\ UNCHANGED notStreamVars
    \/ \E sl \in Sublevels : EngineCompleteLoad(sl) /\ UNCHANGED notStreamVars
    \/ \E sl \in Sublevels : EngineCompleteUnload(sl) /\ UNCHANGED notStreamVars
    \/ \E sl \in Sublevels : EngineShow(sl) /\ UNCHANGED notStreamVars
    \/ \E sl \in Sublevels : EngineHide(sl) /\ UNCHANGED notStreamVars

Spec == SpecInit /\ [][Next]_vars

\* The cinematic manager called directly.
CineSpecInit == Init /\ CineInit /\ CTrigUnused /\ STrigUnused /\ UIUnused

CineNext ==
    \/ \E q \in LevelSequences \cup {NoSequence}, p \in BOOLEAN, k \in BOOLEAN,
          pre \in PreDelayInputs, post \in PostDelayInputs :
          \E ok \in (IF pre > 0 THEN {TRUE} ELSE BOOLEAN) :
          PlaySequence(q, p, k, pre, post, ok) /\ UNCHANGED notCineVars
    \/ \E n \in CinematicNames, p \in BOOLEAN, k \in BOOLEAN,
          pre \in PreDelayInputs, post \in PostDelayInputs :
          \E ok \in (IF pre > 0 THEN {TRUE} ELSE BOOLEAN) :
          PlayCinematicByName(n, p, k, pre, post, ok) /\ UNCHANGED notCineVars
    \/ SkipCurrentCinematic /\ UNCHANGED notCineVars
    \/ \E ok \in BOOLEAN : PreDelayElapsed(ok) /\ UNCHANGED notCineVars
    \/ PostDelayElapsed /\ UNCHANGED notCineVars
    \/ OnFinished /\ UNCHANGED notCineVars

CineSpec == CineSpecInit /\ [][CineNext]_vars

\* The cinematic manager driven by one cinematic trigger.
CTrigSpecInit == Init /\ CineInit /\ CTrigInit /\ STrigUnused /\ UIUnused

CTrigNext ==
    \/ \E a \in Actors, gi \in BOOLEAN, ok \in BOOLEAN :
          CT_OnBoxBeginOverlap(a, gi, ok) /\ UNCHANGED notCTrigVars
    \/ \E pp \in BOOLEAN, ov \in BOOLEAN, gi \in BOOLEAN, ok \in BOOLEAN :
          CT_CheckInitialOverlapOnce(pp, ov, gi, ok) /\ UNCHANGED notCTrigVars
    \/ SkipCurrentCinematic /\ UNCHANGED notCineVars
    \/ \E ok \in BOOLEAN : PreDelayElapsed(ok) /\ UNCHANGED notCineVars
    \/ PostDelayElapsed /\ UNCHANGED notCineVars
    \/ OnFinished /\ UNCHANGED notCineVars

CTrigSpec == CTrigSpecInit /\ [][CTrigNext]_vars

\* The streaming manager driven by one streaming trigger.
STrigSpecInit == Init /\ CineUnused /\ CTrigUnused /\ STrigInit /\ UIUnused

notSTrigVars == <<cineVars, ctrigVars, uiVars>>

STrigNext ==
    \/ \E a \in Actors, f \in BOOLEAN, c \in BOOLEAN :
          ST_OnBoxBeginOverlap(a, f, c) /\ UNCHANGED notSTrigVars
    \/ \E a \in Actors, f \in BOOLEAN :
          ST_OnBoxEndOverlap(a, f) /\ UNCHANGED notSTrigVars
    \/ \E f \in BOOLEAN, pp \in BOOLEAN, c \in BOOLEAN :
          ST_CheckInitialOverlapOnce(f, pp, c) /\ UNCHANGED notSTrigVars
    \/ \E dt \in DeltaTimes : Tick(dt) /\ UNCHANGED notStreamVars
    \/ \E sl \in Sublevels : EngineCompleteLoad(sl) /\ UNCHANGED notStreamVars
    \/ \E sl \in Sublevels : EngineCompleteUnload(sl) /\ UNCHANGED notStreamVars
    \/ \E sl \in Sublevels : EngineShow(sl) /\ UNCHANGED notStreamVars
    \/ \E sl \in Sublevels : EngineHide(sl) /\ UNCHANGED notStreamVars

STrigSpec == STrigSpecInit /\ [][STrigNext]_vars

\* The UI manager called directly.
UISpecInit == Init /\ CineUnused /\ CTrigUnused /\ STrigUnused /\ UIInit

UINext ==
    \/ \E c \in ConfigInputs : SetConfig(c) /\ UNCHANGED notUIVars
    \/ \E o \in Overlays, ok \in BOOLEAN : ShowOverlay(o, ok) /\ UNCHANGED notUIVars
    \/ \E o \in Overlays : HideOverlay(o) /\ UNCHANGED notUIVars
    \/ \E o \in Overlays, ok \in BOOLEAN : ToggleOverlay(o, ok) /\ UNCHANGED notUIVars
    \/ \E w \in WidgetIds : GarbageCollect(w) /\ UNCHANGED notUIVars
    \/ GamePaused /\ UNCHANGED notUIVars

UISpec == UISpecInit /\ [][UINext]_vars

TypeOK ==
    /\ DOMAIN ChunkRecords \subseteq Names \ {None}
    /\ \A n \in DOMAIN ChunkRecords :
          /\ ChunkRecords[n].State \in ETLDChunkState
          /\ ChunkRecords[n].LevelName = n
          /\ ChunkRecords[n].Streaming = FindStreamingLevelByName(n)
          /\ ChunkRecords[n].WarmUpSeconds \in (1 - MaxDelta)..MaxWarm
    /\ engine \in [Sublevels -> ULevelStreaming]

\* ============================================================== properties
IsApiCall(c, op, n) == c.op = op /\ c.name = n
TickStep == lastCall'.op = "Tick"

\* C1 (as stated): a chunk that is Visible has, since it was last Unloaded,
\* been Loading and then LoadedHidden.
C1_LifecycleOrder ==
    \A n \in Names :
        StateOf(ChunkRecords, n) = "Visible" => trail[n] = "LoadedHidden"

\* C1 (amended): the lifecycle order is what Tick enforces. Tick never changes
\* the state of an Unloaded or Visible chunk and never sets Unloaded; it moves
\* a Loading chunk forward only when the engine reports the level loaded, and
\* it makes a chunk Visible only through LoadedHidden with the level loaded.
C1_TickFollowsLifecycle ==
    [][TickStep =>
        \A n \in Names :
            LET pre == StateOf(ChunkRecords, n)
                post == StateOf(ChunkRecords', n)
            IN  pre # post =>
                  /\ pre \in {"Loading", "LoadedHidden"}
                  /\ post # "Unloaded"
                  /\ pre = "Loading" =>
                        post \in {"LoadedHidden", "Visible"} /\ engine[n].bLoaded
                  /\ post = "Visible" =>
                        /\ engine[n].bLoaded
                        /\ pre = "Loading" => trail'[n] = "LoadedHidden"]_vars

C1_Witness ==
    \E n \in Sublevels :
        /\ lastCall.op = "Tick"
        /\ reqLog = <<Req("SetShouldBeVisible", n, TRUE)>>
        /\ StateOf(ChunkRecords, n) = "Visible"
        /\ trail[n] = "LoadedHidden"

\* C2: UnloadChunkAsync on a known sublevel asks the engine to hide the level
\* and then to unload it, in that order, and leaves the chunk Unloaded with no
\* warm-up pending.
C2_UnloadHidesFirst ==
    \A n \in Sublevels :
        IsApiCall(lastCall, "UnloadChunkAsync", n) =>
            /\ reqLog = <<Req("SetShouldBeVisible", n, FALSE),
                          Req("SetShouldBeLoaded", n, FALSE)>>
            /\ ~engine[n].bShouldBeVisible /\ ~engine[n].bShouldBeLoaded
            /\ n \in DOMAIN ChunkRecords
            /\ ChunkRecords[n].State = "Unloaded"
            /\ ChunkRecords[n].WarmUpSeconds = 0

\* the unload of a level the engine has loaded and shows
C2_Witness ==
    \E n \in Sublevels :
        /\ IsApiCall(lastCall, "UnloadChunkAsync", n)
        /\ engine[n].bLoaded /\ engine[n].bVisible
        /\ ChunkRecords[n].State = "Unloaded"

\* C3: for every sublevel the latest visibility request is 'visible' only if
\* the latest load request is 'should be loaded'.
C3_ShowOnlyIfLoadRequested ==
    \A s \in Sublevels : engine[s].bShouldBeVisible => engine[s].bShouldBeLoaded

\* C4: after LoadChunkAsync on a sublevel of the world the engine has been
\* asked to keep the level loaded.
C4_LoadRequestsLoad ==
    \A n \in Sublevels :
        IsApiCall(lastCall, "LoadChunkAsync", n) => engine[n].bShouldBeLoaded

\* C5: whenever IsChunkLoaded is true for a tracked chunk, the engine reports
\* that level as loaded.
C5_LoadedMeansInMemory ==
    \A n \in Sublevels :
        (n \in DOMAIN ChunkRecords /\ IsChunkLoaded(n)) => engine[n].bLoaded

\* a step in which chunk n becomes Visible while a LoadChunkAsync(n, true, W>0)
\* is the latest request for it
ShownAfterWarmUp(n) ==
    /\ WarmUpPending(n)
    /\ lastReq'[n] = lastReq[n] /\ reqBit'[n] = reqBit[n]
    /\ StateOf(ChunkRecords, n) # "Visible"
    /\ StateOf(ChunkRecords', n) = "Visible"

\* C6 (as stated): the chunk becomes Visible only with the level loaded and
\* after Ticks called while it was LoadedHidden have accumulated W.
C6_WarmUpCountsHiddenTicks ==
    [][\A n \in Sublevels :
          ShownAfterWarmUp(n) =>
              engine[n].bLoaded /\ hiddenAcc'[n] >= lastReq[n].W]_vars

\* C6 (amended): the chunk becomes Visible only with the level loaded and
\* after Ticks called with the engine reporting the level loaded, the Tick that
\* first observes the completed load included, have accumulated W; a Tick that
\* leaves the chunk Loading does not touch the warm-up.
C6_WarmUpCountsLoadedTicks ==
    [][\A n \in Sublevels :
          /\ ShownAfterWarmUp(n) =>
                engine[n].bLoaded /\ loadedAcc'[n] >= lastReq[n].W
          /\ (TickStep /\ WarmUpPending(n)
                /\ StateOf(ChunkRecords, n) = "Loading"
                /\ StateOf(ChunkRecords', n) = "Loading") =>
                ChunkRecords'[n].WarmUpSeconds = ChunkRecords[n].WarmUpSeconds]_vars

\* the Tick that observed the load was counted
C6_Witness ==
    \E n \in Sublevels :
        /\ lastCall.op = "Tick"
        /\ WarmUpPending(n)
        /\ StateOf(ChunkRecords, n) = "Visible"
        /\ loadedAcc[n] >= lastReq[n].W
        /\ hiddenAcc[n] < lastReq[n].W

\* LoadChunkAsync(n, true, W) is the latest request for n
ShowPending(n) == lastReq[n].kind = "LoadShow"

\* the engine has completed everything it was last asked to do
EngineIdle ==
    \A sl \in Sublevels :
        /\ engine[sl].bLoaded = engine[sl].bShouldBeLoaded
        /\ engine[sl].bVisible = (engine[sl].bLoaded /\ engine[sl].bShouldBeVisible)

\* no Tick, whatever its DeltaTime, changes a record or issues a request
TickIdle ==
    \A dt \in DeltaTimes :
        LET r == TickLoop(DOMAIN ChunkRecords, ChunkRecords, engine, <<>>,
                          [n \in Names |-> <<>>], dt)
        IN  r.recs = ChunkRecords /\ r.eng = engine

\* C7: with LoadChunkAsync(n, true, W) the latest request for a sublevel, the
\* chunk ends up Visible: once the engine has completed what it was asked and
\* further Ticks change nothing, so that only a new request could change the
\* chunk's state, the chunk is Visible.
C7_EndsUpVisible ==
    \A n \in Sublevels :
        (ShowPending(n) /\ EngineIdle /\ TickIdle)
            => StateOf(ChunkRecords, n) = "Visible"

\* C8: while LoadChunkAsync(n, false, W) is the latest request for a sublevel,
\* the chunk is Loading or LoadedHidden, no warm-up is pending and the engine
\* is not asked to show the level.
C8_HiddenLoadStaysHidden ==
    \A n \in Sublevels :
        lastReq[n].kind = "LoadHidden" =>
            /\ StateOf(ChunkRecords, n) \in {"Loading", "LoadedHidden"}
            /\ ChunkRecords[n].WarmUpSeconds = 0
            /\ ~engine[n].bShouldBeVisible

\* a Tick found the hidden load (requested with a warm-up) complete
C8_Witness ==
    \E n \in Sublevels :
        /\ lastReq[n].kind = "LoadHidden" /\ lastReq[n].W > 0
        /\ lastCall.op = "Tick"
        /\ StateOf(ChunkRecords, n) = "LoadedHidden"
        /\ trail[n] = "LoadedHidden"
        /\ engine[n].bLoaded

\* C9: SetChunkVisible does not change what the engine has been asked about
\* keeping a level loaded.
C9_SetVisibleKeepsLoadRequest ==
    [][lastCall'.op = "SetChunkVisible" =>
          \A s \in Sublevels :
              engine'[s].bShouldBeLoaded = engine[s].bShouldBeLoaded]_vars

ApiOps == {"LoadChunkAsync", "UnloadChunkAsync", "SetChunkVisible"}

\* C10: a call with the None name creates no record and changes nothing; a call
\* with a name that is not a sublevel issues no engine request and leaves the
\* tracked state Unloaded, so IsChunkLoaded and IsChunkVisible are false.
C10_InvalidNamesRejected ==
    [][/\ None \notin DOMAIN ChunkRecords'
       /\ (lastCall'.op \in ApiOps /\ lastCall'.name = None) =>
              UNCHANGED <<ChunkRecords, engine, lastReq, reqBit, trail>>
       /\ \A n \in NotSublevels :
              /\ StateOf(ChunkRecords', n) = "Unloaded"
              /\ ~IsChunkLoaded(n)' /\ ~IsChunkVisible(n)'
              /\ (lastCall'.op \in ApiOps /\ lastCall'.name = n) =>
                    reqLog' = <<>> /\ engine' = engine]_vars

C10_Witness ==
    \E n \in NotSublevels :
        /\ IsApiCall(lastCall, "LoadChunkAsync", n)
        /\ n \in DOMAIN ChunkRecords
        /\ ChunkRecords[n].State = "Unloaded"
        /\ \E s \in Sublevels : engine[s].bLoaded

\* ------------------------------------------------- cinematic properties
\* A step that is a call of the cinematic manager's API (the environment's
\* steps leave cineCall.bit alone).
CineApiStep(ops) == cineCall'.bit # cineCall.bit /\ cineCall'.op \in ops

\* C11: a PlaySequence call made while bIsPlaying is true (pre-delay,
\* playback or post-delay) changes nothing: the pending sequence, the
\* pause/skippable settings, the post-delay, the timers, the active player
\* and the world's sequence player and pause flag all stay as they were.
C11_BusyPlaySequenceIgnored ==
    [][(CineApiStep({"PlaySequence", "PlayCinematicByName"}) /\ mgr.bIsPlaying)
         => (mgr' = mgr /\ cworld' = cworld)]_vars

\* C11: PlaySequence was called with another sequence during the post-delay
\* of the one in progress.
C11_Witness ==
    /\ cineCall.op = "PlaySequence"
    /\ cineCall.busy
    /\ cineCall.Sequence \notin {NoSequence, mgr.PendingSequence}
    /\ mgr.PostDelayHandle
    /\ mgr.bIsPlaying

\* C12: PlayCinematicByName returns true only if this call made the named
\* cinematic the pending sequence, which requires that no cinematic was in
\* progress when it was called.
C12_TrueOnlyIfAccepted ==
    [][(CineApiStep({"PlayCinematicByName"}) /\ cineCall'.ret)
         => (~mgr.bIsPlaying /\ mgr'.PendingSequence = cineCall'.Sequence)]_vars

\* A skippable cinematic is playing: started with bSkippable, its player
\* running, neither delay pending.
SkippablePlaying ==
    /\ mgr.bIsPlaying
    /\ mgr.bPendingSkippable
    /\ cworld.player = "Playing"
    /\ ~mgr.PreDelayHandle
    /\ ~mgr.PostDelayHandle

\* C13: SkipCurrentCinematic stops the sequence player when a cinematic
\* started with bSkippable=true is playing, and changes nothing otherwise
\* (nothing playing, not skippable, pre-delay, post-delay).
C13_SkipOnlySkippablePlayback ==
    [][CineApiStep({"SkipCurrentCinematic"})
         => IF SkippablePlaying
            THEN cworld'.player = "Stopped" /\ ~mgr'.bAllowSkip
            ELSE mgr' = mgr /\ cworld' = cworld]_vars

\* C13: a skip was asked for during the post-delay of a skippable cinematic
\* that had played to its end.
C13_Witness ==
    /\ cineCall.op = "SkipCurrentCinematic"
    /\ mgr.PostDelayHandle
    /\ mgr.bPendingSkippable
    /\ cworld.player = "Finished"

\* Nothing is left that would move the cinematic on: no sequence player is
\* running and no timer can elapse.
CineQuiet ==
    /\ cworld.player # "Playing"
    /\ ~(mgr.PreDelayHandle /\ ~cworld.bPaused)
    /\ ~(mgr.PostDelayHandle /\ ~cworld.bPaused)

\* C14: every accepted cinematic ends: once no player runs and no timer can
\* elapse, bIsPlaying is false, the active player is cleared and the game
\* is not paused.
C14_AcceptedCinematicEnds ==
    CineQuiet => (~mgr.bIsPlaying /\ mgr.ActivePlayer = NoPlayer /\ ~cworld.bPaused)

\* C15: the game is paused only while bIsPlaying, never during the
\* pre-delay; a cinematic with bPauseGame pauses the game when its player
\* starts and keeps it paused while the player is active (playback and
\* post-delay); the step that clears bIsPlaying leaves the game unpaused.
C15_PausedWhilePlaying ==
    [][/\ cworld'.bPaused => (mgr'.bIsPlaying /\ ~mgr'.PreDelayHandle)
       /\ (mgr'.bIsPlaying /\ mgr'.ActivePlayer # NoPlayer /\ mgr'.bPendingPause
              /\ cworld'.bHasPC) => cworld'.bPaused
       /\ (mgr.bIsPlaying /\ ~mgr'.bIsPlaying) => ~cworld'.bPaused]_vars

\* C15: a cinematic with bPauseGame played to its end, and the step that
\* ended it unpaused the game.
C15_Witness ==
    /\ cineCall.op \in {"HandleSequenceFinished", "PostDelay"}
    /\ mgr.bPendingPause
    /\ cworld.bHasPC
    /\ cworld.player = "Finished"
    /\ ~mgr.bIsPlaying
    /\ ~cworld.bPaused

\* C16: bHasFired is never cleared, and a trigger with bOneShot calls
\* PlayCinematicByName at most once, whatever overlap events and initial
\* check occur.
C16_OneShotAsksOnce ==
    [][/\ ctrig.bHasFired => ctrig'.bHasFired
       /\ ctrig'.props.bOneShot => ctrig'.Requests <= 1]_vars

\* C16: a one-shot trigger that has asked once saw a further event, after
\* its initial check, and made no call.
C16_Witness ==
    /\ ctrig.props.bOneShot
    /\ ctrig.bHasFired
    /\ ctrig.Requests = 1
    /\ ~ctrig.bInitialCheck
    /\ cineCall.op = "Trigger"

\* ------------------------------------------- streaming trigger properties
\* C17: with bOnlyPlayerPawn, a begin- or end-overlap event (a step in which
\* an actor enters or leaves the box) from an actor
\* that is not a player-controlled pawn leaves the trigger (bHasFired,
\* LoadedByThisTrigger, its cached manager), the manager's records and the
\* engine's streaming levels as they were, and issues no engine request.
C17_NonPlayerOverlapIgnored ==
    [][(/\ inside' # inside
        /\ strigCall'.op \in {"OnBoxBeginOverlap", "OnBoxEndOverlap"}
        /\ strig.props.bOnlyPlayerPawn
        /\ ~IsPlayerPawn(strigCall'.OtherActor))
         => (/\ strig' = strig
             /\ ChunkRecords' = ChunkRecords
             /\ engine' = engine
             /\ reqLog' = <<>>)]_vars

\* C17: an AI pawn left the box of a player-only trigger that has fired,
\* tracks levels it loaded and unloads on exit.
C17_Witness ==
    /\ strigCall.op = "OnBoxEndOverlap"
    /\ strigCall.OtherActor = "AIPawn"
    /\ strig.props.bOnlyPlayerPawn
    /\ strig.props.bUnloadOnExit
    /\ strig.bHasFired
    /\ strig.LoadedByThisTrigger # <<>>
    /\ "PlayerPawn" \in inside

\* ------------------------------------------------------- overlay properties
\* A ShowOverlay(o) call made right after a HideOverlay(o) call that took
\* widget uiCall.hid out of LiveWidgets.
ShowAfterHide ==
    /\ HidJustBefore(uiCall'.Overlay)
    /\ uiCall'.bit # uiCall.bit
    /\ uiCall'.op = "ShowOverlay"

TrackedCount(o) ==
    (IF ui.LiveWidgets[o] # NoWidget THEN 1 ELSE 0) + Len(ui.Pooled[o])

\* C19: for every overlay, LiveWidgets and the pool together hold at most
\* one widget, and the live widget is not in the pool.
C19_OneTrackedWidget ==
    \A o \in Overlays :
        /\ TrackedCount(o) <= 1
        /\ \A i \in 1..Len(ui.Pooled[o]) : ui.Pooled[o][i] # ui.LiveWidgets[o]

\* C19: a toggle hid a persistent overlay into the pool while another
\* overlay has a live widget.
C19_Witness ==
    /\ uiCall.op = "ToggleOverlay"
    /\ \E o \in Overlays, q \in Overlays :
          /\ o # q
          /\ Len(ui.Pooled[o]) = 1
          /\ Get(widgets, ui.Pooled[o][1]) # NoWidget
          /\ Get(widgets, ui.LiveWidgets[q]) # NoWidget
====
